---- MODULE Spec2Model ----
(***************************************************************************)
(* Model of dot15d4's single-slot signalling channel                       *)
(* (dot15d4/src/sync/channel.rs): Channel::new, Channel::split,            *)
(* Sender::send and the poll_fn closure of Receiver::receive, together     *)
(* with the owner of the channel and the consumer that holds the received  *)
(* values.  Every sent value carries the number of its construction, so    *)
(* that its destruction can be counted.                                    *)
(***************************************************************************)
EXTENDS Integers, Sequences, FiniteSets, TLC

\* ------------------------------------------------------------------ bounds
MaxSends == 3       \* values constructed (calls of send)
MaxRecv == 3        \* calls of receive()
MaxVal == 2         \* payloads are 1..MaxVal

Values == 1..MaxVal
Ids == 1..MaxSends
Calls == 1..MaxRecv

\* ------------------------------------------------------- the channel's data
\* Option<Waker>::None; a waker is named by the receive() call that cloned it.
None == 0

\* The id under which a destructor run on memory holding no value is counted.
Garbage == 0

\* MaybeUninit::uninit(): the cell holds no value.
MaybeUninit_uninit == [cell |-> "uninit", id |-> Garbage, val |-> 0]

\* ChannelState { is_ready: false, waker: None }
ChannelState_new == [is_ready |-> FALSE, waker |-> None]

\* Channel::new
Channel_new == [message |-> MaybeUninit_uninit, state |-> ChannelState_new]

\* Mutant of ptr_write: a populated cell keeps its old value.
ptr_write_keep_old(cell, msg) ==
    IF cell.cell = "init" THEN cell
    ELSE [cell |-> "init", id |-> msg.id, val |-> msg.val]

\* as_mut_ptr().write(message): the cell now holds the value, whatever it held.
ptr_write(cell, msg) == [cell |-> "init", id |-> msg.id, val |-> msg.val]

\* drop_in_place(as_mut_ptr()): runs the destructor of whatever the cell's bytes
\* are: the value it holds, the value that was moved out of it (a second
\* destruction), or garbage when it was never written.
drop_in_place(cell) == cell.id

\* assume_init_read(): a bitwise copy of the cell taken as an owned value.  On a
\* cell never written it yields arbitrary bytes.
assume_init_read(cell) ==
    IF cell.cell = "uninit"
    THEN {[id |-> Garbage, val |-> v] : v \in Values}
    ELSE {[id |-> cell.id, val |-> cell.val]}

\* After assume_init_read the value is owned by the reader: the cell keeps the
\* bytes but no longer owns a value.
moved_out(cell) == [cell EXCEPT !.cell = IF cell.cell = "init" THEN "moved" ELSE @]

\* Dropping a Channel<T>: the struct has no Drop impl and MaybeUninit<T> never
\* drops its contents, so no destructor of T runs (the waker is dropped, not
\* woken).  The ids destroyed:
Channel_drop(ch) == <<>>

\* Mutant of Channel_split: the handles are handed out without the reset.
Channel_split_no_reset(ch) == [channel |-> ch, dropped |-> <<>>]

\* Channel::split: `*self = Self::new()` drops the previous Channel and stores
\* a new one; both handles point at it.
Channel_split(ch) == [channel |-> Channel_new, dropped |-> Channel_drop(ch)]

\* ----------------------------------------------------------- Sender::send
\* Mutant of send_did_replace: the test is inverted.
send_did_replace_inverted(st) == ~st.is_ready

\* `state.is_ready` at entry selects the branch and is the return value.
send_did_replace(st) == st.is_ready

\* The ids destroyed by send: the previous message on the replace branch.
send_dropped(ch) ==
    IF send_did_replace(ch.state) THEN <<drop_in_place(ch.message)>> ELSE <<>>

\* Mutant of send_wake_replace: woken by reference on either branch, so the
\* second wake site wakes the same waker again.
send_wake_replace_by_ref(st) ==
    IF st.waker # None
    THEN [waker |-> st.waker, woken |-> <<st.waker>>]
    ELSE [waker |-> st.waker, woken |-> <<>>]

\* The first wake site (inside the replace branch): state.waker.take().
send_wake_replace(st) ==
    IF send_did_replace(st) /\ st.waker # None
    THEN [waker |-> None, woken |-> <<st.waker>>]
    ELSE [waker |-> st.waker, woken |-> <<>>]

\* Mutant of send_wake_final: the waker is taken and dropped without a wake.
send_wake_final_silent(w) == [waker |-> None, woken |-> <<>>]

\* Mutant of send_wake_final: woken by reference, the waker stays registered.
send_wake_final_by_ref(w) ==
    IF w # None THEN [waker |-> w, woken |-> <<w>>]
                ELSE [waker |-> None, woken |-> <<>>]

\* The second wake site (after the branch): state.waker.take().
send_wake_final(w) ==
    IF w # None THEN [waker |-> None, woken |-> <<w>>]
                ELSE [waker |-> None, woken |-> <<>>]

\* The flag stored by `state.is_ready = true`.
send_is_ready == TRUE

\* Sender::send as a whole: the channel afterwards, the return value, the ids
\* destroyed and the wakers woken, in order.
Sender_send(ch, msg) ==
    LET w1 == send_wake_replace(ch.state)
        w2 == send_wake_final(w1.waker)
    IN [channel |-> [message |-> ptr_write(ch.message, msg),
                     state |-> [is_ready |-> send_is_ready, waker |-> w2.waker]],
        ret |-> send_did_replace(ch.state),
        dropped |-> send_dropped(ch),
        woken |-> w1.woken \o w2.woken]

\* ------------------------------------------------------ Receiver::receive
\* Mutant of poll_not_ready: Pending only while no waker is registered yet.
poll_not_ready_unregistered(st) == ~st.is_ready /\ st.waker = None

\* The test of the poll_fn closure: Pending when this holds.
poll_not_ready(st) == ~st.is_ready

\* Mutant of poll_register: a waker already registered is kept.
poll_register_keep_first(old, cx) == IF old # None THEN old ELSE cx

\* The waker stored on the Pending branch: clone_from / Some(clone) both leave
\* the waker of the polling context.
poll_register(old, cx) == cx

\* Mutant of poll_reset_ready: the flag is left set.
poll_reset_ready_kept == TRUE

\* The flag stored on the Ready branch: `state.is_ready = false`.
poll_reset_ready == FALSE

\* One poll of the closure under the context waker cx: the set of outcomes.
Receiver_poll(ch, cx) ==
    IF poll_not_ready(ch.state)
    THEN {[channel |-> [ch EXCEPT !.state.waker = poll_register(@, cx)],
           poll |-> "Pending", message |-> [id |-> Garbage, val |-> 0]]}
    ELSE {[channel |-> [message |-> moved_out(ch.message),
                        state |-> [ch.state EXCEPT !.is_ready = poll_reset_ready]],
           poll |-> "Ready", message |-> m] : m \in assume_init_read(ch.message)}

\* ------------------------------------------------------------------ state
VARIABLES
    alive,        \* the Channel object exists
    handles,      \* split() has handed out the Sender and the Receiver
    channel,      \* the Channel: message cell and ChannelState
    fut,          \* the receive() future in flight: None or its call number
    recv,         \* "idle", "created" (not polled yet) or "pending"
    woken,        \* the call in flight, once its waker was woken since its last poll
    held,         \* ids of the values the consumer got and still owns
    nrecv,        \* receive() calls made
    constructed,  \* values constructed (one per send); the last one's id
    drops,        \* id -> destructor runs
    received,     \* history: one record per resolved receive (intact: the
                  \* payload returned is the payload of the last send)
    last_ret,     \* what the last send returned
    last_val,     \* payload of the last send
    last_woken,   \* wakers woken by the last send, in order
    split_at,     \* `constructed` at the last split
    polled,       \* a receive was polled since the last split
    time,         \* the Instant/Duration computation (time.rs)
    join          \* the two tasks of test_channel_join_concurrency

vars == <<alive, handles, channel, fut, recv, woken, held, nrecv, constructed,
          drops, received, last_ret, last_val, last_woken, split_at, polled,
          time, join>>

\* No time computation and no join in progress.
TimeOff == [checks |-> FALSE, x |-> 0, y |-> 0, k |-> 0,
            acc |-> [ty |-> "none", us |-> 0], ops |-> <<>>]
JoinOff == [n |-> 0, order |-> <<>>, turn |-> 0, producer |-> "off",
            consumer |-> "off", i |-> 0, woke |-> FALSE]

RECURSIVE count_drops(_, _)
\* drops after destroying the ids of seq one by one.
count_drops(d, seq) ==
    IF seq = <<>> THEN d
    ELSE count_drops([d EXCEPT ![Head(seq)] = @ + 1], Tail(seq))

RECURSIVE seq_set(_)
seq_set(seq) == IF seq = <<>> THEN {} ELSE {Head(seq)} \cup seq_set(Tail(seq))

\* let mut channel = Channel::new();
ChannelInit ==
    /\ alive = TRUE
    /\ handles = FALSE
    /\ channel = Channel_new
    /\ fut = None
    /\ recv = "idle"
    /\ woken = {}
    /\ held = {}
    /\ nrecv = 0
    /\ constructed = 0
    /\ drops = [i \in {Garbage} \cup Ids |-> 0]
    /\ received = <<>>
    /\ last_ret = FALSE
    /\ last_val = 0
    /\ last_woken = <<>>
    /\ split_at = 0
    /\ polled = FALSE

Init == ChannelInit /\ time = TimeOff /\ join = JoinOff

\* channel.split(): needs `&mut self`, so no future borrows the old Receiver.
\* `*self = Self::new()` drops the old Channel and stores a new one.
Split ==
    /\ alive /\ recv = "idle"
    /\ drops' = count_drops(drops, Channel_split(channel).dropped)
    /\ channel' = Channel_split(channel).channel
    /\ handles' = TRUE
    /\ split_at' = constructed
    /\ polled' = FALSE
    /\ UNCHANGED <<alive, fut, recv, woken, held, nrecv, constructed, received,
                   last_ret, last_val, last_woken>>
    /\ UNCHANGED <<time, join>>

\* send.send(message) with a freshly constructed message.
Send ==
    /\ alive /\ handles /\ constructed < MaxSends
    /\ \E v \in Values :
        LET r == Sender_send(channel, [id |-> constructed + 1, val |-> v])
        IN /\ channel' = r.channel
           /\ last_ret' = r.ret
           /\ drops' = count_drops(drops, r.dropped)
           /\ woken' = (woken \cup seq_set(r.woken)) \cap {fut}
           /\ last_woken' = r.woken
           /\ last_val' = v
    /\ constructed' = constructed + 1
    /\ UNCHANGED <<alive, handles, fut, recv, held, nrecv, received, split_at, polled>>
    /\ UNCHANGED <<time, join>>

\* recv.receive(): the future is created; nothing runs until it is polled.
Receive ==
    /\ alive /\ handles /\ recv = "idle" /\ nrecv < MaxRecv
    /\ nrecv' = nrecv + 1
    /\ fut' = nrecv + 1
    /\ recv' = "created"
    /\ UNCHANGED <<alive, handles, channel, woken, held, constructed, drops,
                   received, last_ret, last_val, last_woken, split_at, polled>>
    /\ UNCHANGED <<time, join>>

\* The executor polls the future (first poll, after a wake, or spuriously).
Poll ==
    /\ alive /\ fut # None
    /\ \E r \in Receiver_poll(channel, fut) :
        /\ channel' = r.channel
        /\ IF r.poll = "Pending"
           THEN /\ recv' = "pending"
                /\ UNCHANGED <<fut, held, received>>
           ELSE /\ recv' = "idle"
                /\ fut' = None
                /\ held' = held \cup {r.message.id}
                /\ received' = Append(received,
                        [id |-> r.message.id, call |-> fut, at |-> constructed,
                         intact |-> r.message.val = last_val,
                         base |-> split_at, first |-> ~polled,
                         parked |-> recv = "pending",
                         notified |-> fut \in woken])
    /\ woken' = woken \ {fut}
    /\ polled' = TRUE
    /\ UNCHANGED <<alive, handles, nrecv, constructed, drops, last_ret, last_val,
                   last_woken, split_at>>
    /\ UNCHANGED <<time, join>>

\* The consumer abandons the suspended (or never polled) receive: the future is
\* dropped, the channel is not touched.
Cancel ==
    /\ fut # None
    /\ fut' = None
    /\ recv' = "idle"
    /\ woken' = {}
    /\ UNCHANGED <<alive, handles, channel, held, nrecv, constructed, drops,
                   received, last_ret, last_val, last_woken, split_at, polled>>
    /\ UNCHANGED <<time, join>>

\* The consumer destroys a value it received.
Consume ==
    /\ \E i \in held :
        /\ held' = held \ {i}
        /\ drops' = count_drops(drops, <<i>>)
    /\ UNCHANGED <<alive, handles, channel, fut, recv, woken, nrecv, constructed,
                   received, last_ret, last_val, last_woken, split_at, polled>>
    /\ UNCHANGED <<time, join>>

\* The owner's Channel goes out of scope (no handle or future borrows it).
Destroy ==
    /\ alive /\ recv = "idle"
    /\ drops' = count_drops(drops, Channel_drop(channel))
    /\ alive' = FALSE
    /\ handles' = FALSE
    /\ UNCHANGED <<channel, fut, recv, woken, held, nrecv, constructed, received,
                   last_ret, last_val, last_woken, split_at, polled>>
    /\ UNCHANGED <<time, join>>

Next == Split \/ Send \/ Receive \/ Poll \/ Cancel \/ Consume \/ Destroy

Spec == Init /\ [][Next]_vars

\* The scheduler polls again a task whose waker was woken.
Resume == fut \in woken /\ Poll

FairSpec == Init /\ [][Next]_vars /\ WF_vars(Resume)

\* ------------------------------------------------ time.rs: Instant, Duration
\* The microsecond counts are i64.  The model keeps two's complement integers
\* of Bits bits (the checker's integers do not reach 2^63) and the same width
\* for usize.
Bits == 8
Small == 3          \* operands -Small..Small besides the extremes and the tests' values

Modulus == 2 ^ Bits
MinI == -(2 ^ (Bits - 1))
MaxI == 2 ^ (Bits - 1) - 1
InRange(n) == MinI <= n /\ n <= MaxI

\* The value of a computation that panicked.
Panic == [ty |-> "panic", us |-> 0]

\* Two's complement wrap-around of an out-of-range result.
wrap(n) == ((n - MinI) % Modulus) + MinI

\* An i64 `+`, `-` or `*` whose exact result is n: with overflow checks (debug
\* builds) an unrepresentable result panics, without them it wraps.
i64_arith(n, checks, ty) ==
    IF InRange(n) THEN [ty |-> ty, us |-> n]
    ELSE IF checks THEN Panic
    ELSE [ty |-> ty, us |-> wrap(n)]

abs(n) == IF n < 0 THEN -n ELSE n

\* Mutant of i64_div: the quotient is rounded down (floor), not toward zero.
i64_div_floor(n, d, ty) ==
    IF d = 0 \/ (n = MinI /\ d = -1) THEN Panic
    ELSE [ty |-> ty, us |-> n \div d]

\* An i64 `/`: truncates toward zero; division by zero and MIN / -1 panic in
\* every build.
i64_div(n, d, ty) ==
    IF d = 0 \/ (n = MinI /\ d = -1) THEN Panic
    ELSE [ty |-> ty,
          us |-> IF (n < 0) = (d < 0) THEN abs(n) \div abs(d)
                                      ELSE -(abs(n) \div abs(d))]

\* `rhs as i64` of a usize: the same bits read as a signed number.
usize_as_i64(k) == IF k > MaxI THEN k - Modulus ELSE k

\* Instant::from_us, Duration::from_us
Instant_from_us(us) == [ty |-> "Instant", us |-> us]
Duration_from_us(us) == [ty |-> "Duration", us |-> us]

\* impl Sub for Instant: `type Output = Self`.
Instant_sub_Instant(a, b, checks) == i64_arith(a.us - b.us, checks, "Instant")

\* impl Sub<Duration> for Instant
Instant_sub_Duration(a, b, checks) == i64_arith(a.us - b.us, checks, "Instant")

\* Mutant of Instant_add_Duration: the duration is subtracted.
Instant_add_Duration_minus(a, b, checks) == i64_arith(a.us - b.us, checks, "Instant")

\* impl Add<Duration> for Instant
Instant_add_Duration(a, b, checks) == i64_arith(a.us + b.us, checks, "Instant")

\* impl Sub for Duration
Duration_sub(a, b, checks) == i64_arith(a.us - b.us, checks, "Duration")

\* impl Add<Duration> for Duration
Duration_add(a, b, checks) == i64_arith(a.us + b.us, checks, "Duration")

\* Mutant of Duration_mul: the factor is added.
Duration_mul_plus(a, k, checks) == i64_arith(a.us + usize_as_i64(k), checks, "Duration")

\* impl Mul<usize> for Duration
Duration_mul(a, k, checks) == i64_arith(a.us * usize_as_i64(k), checks, "Duration")

\* impl Div<usize> for Duration
Duration_div(a, k) == i64_div(a.us, usize_as_i64(k), "Duration")

\* The operands tried: around zero, the extremes, and the values of the tests.
Samples == (-Small..Small) \cup {MinI, MinI + 1, MaxI - 1, MaxI}
              \cup {-100, -50, -40, 40, 50, 60, 100}
USamples == (0..Small) \cup {MaxI, MaxI + 1, Modulus - 1}

\* let a = Instant::from_us(x) or Duration::from_us(x); the operands y and k.
TimeInit ==
    /\ ChannelInit
    /\ join = JoinOff
    /\ \E c \in BOOLEAN, x \in Samples, y \in Samples, k \in USamples :
         \E a \in {Instant_from_us(x), Duration_from_us(x)} :
            time = [checks |-> c, x |-> x, y |-> y, k |-> k, acc |-> a, ops |-> <<>>]

\* An expression applies at most two operators.
TimeStep(ty, op, result) ==
    /\ time.acc.ty = ty
    /\ Len(time.ops) < 2
    /\ time' = [time EXCEPT !.acc = result, !.ops = Append(@, op)]
    /\ UNCHANGED <<alive, handles, channel, fut, recv, woken, held, nrecv,
                   constructed, drops, received, last_ret, last_val, last_woken,
                   split_at, polled, join>>

\* acc - Instant::from_us(y)
InstantSubInstant ==
    TimeStep("Instant", "sub_instant",
             Instant_sub_Instant(time.acc, Instant_from_us(time.y), time.checks))

\* acc - Duration::from_us(y)
InstantSubDuration ==
    TimeStep("Instant", "sub_duration",
             Instant_sub_Duration(time.acc, Duration_from_us(time.y), time.checks))

\* acc + Duration::from_us(y)
InstantAddDuration ==
    TimeStep("Instant", "add_duration",
             Instant_add_Duration(time.acc, Duration_from_us(time.y), time.checks))

\* acc - Duration::from_us(y)
DurationSub ==
    TimeStep("Duration", "sub",
             Duration_sub(time.acc, Duration_from_us(time.y), time.checks))

\* acc + Duration::from_us(y)
DurationAdd ==
    TimeStep("Duration", "add",
             Duration_add(time.acc, Duration_from_us(time.y), time.checks))

\* acc * k
DurationMul ==
    TimeStep("Duration", "mul", Duration_mul(time.acc, time.k, time.checks))

\* acc / k
DurationDiv ==
    TimeStep("Duration", "div", Duration_div(time.acc, time.k))

TimeNext ==
    \/ InstantSubInstant \/ InstantSubDuration \/ InstantAddDuration
    \/ DurationSub \/ DurationAdd \/ DurationMul \/ DurationDiv

TimeSpec == TimeInit /\ [][TimeNext]_vars

\* ------------------------------- tests::test_channel_join_concurrency
\* for i in 0..10
JoinN == 10

\* yield_now().await: the first poll wakes the task and returns Pending, the
\* next one returns Ready.
yield_now == [poll |-> "Pending", wake |-> TRUE]

\* join(a, b) polls its unfinished futures one after the other each time the
\* task is polled; which of the two comes first is left open.
JoinOrders == {<<"producer", "consumer">>, <<"consumer", "producer">>}

JoinTask == IF join.turn \in {1, 2} THEN join.order[join.turn] ELSE "none"

\* let mut channel = Channel::new(); let (mut send, mut recv) = channel.split();
\* then join(producer, consumer) is polled for the first time by block_on.
JoinInit ==
    /\ alive = TRUE
    /\ handles = TRUE
    /\ channel = Channel_split(Channel_new).channel
    /\ fut = None
    /\ recv = "idle"
    /\ woken = {}
    /\ held = {}
    /\ nrecv = 0
    /\ constructed = 0
    /\ received = <<>>
    /\ last_ret = FALSE
    /\ last_val = 0
    /\ last_woken = <<>>
    /\ split_at = 0
    /\ polled = FALSE
    /\ time = TimeOff
    /\ \E n \in 1..JoinN, o \in JoinOrders :
         /\ join = [n |-> n, order |-> o, turn |-> 1, producer |-> "start",
                    consumer |-> "receive", i |-> 0, woke |-> FALSE]
         /\ drops = [i \in 0..n |-> 0]

\* One poll of the producer: (after the yield) the next i; past the last one
\* the loop ends, otherwise send.send(i) and yield_now().await returns Pending.
JoinProducerPoll ==
    /\ JoinTask = "producer" /\ join.producer # "done"
    /\ LET i == IF join.producer = "start" THEN 0 ELSE join.i + 1
       IN IF i >= join.n
          THEN /\ join' = [join EXCEPT !.producer = "done", !.turn = @ + 1]
               /\ UNCHANGED <<channel, last_ret, drops, woken, last_woken,
                              last_val, constructed>>
          ELSE LET r == Sender_send(channel, [id |-> constructed + 1, val |-> i])
               IN /\ channel' = r.channel
                  /\ last_ret' = r.ret
                  /\ drops' = count_drops(drops, r.dropped)
                  /\ woken' = (woken \cup seq_set(r.woken)) \cap {fut}
                  /\ last_woken' = r.woken
                  /\ last_val' = i
                  /\ constructed' = constructed + 1
                  /\ join' = [join EXCEPT !.producer = "yielded", !.i = i,
                                          !.turn = @ + 1,
                                          !.woke = @ \/ r.woken # <<>>
                                                     \/ yield_now.wake]
    /\ UNCHANGED <<alive, handles, fut, recv, held, nrecv, received, split_at,
                   polled, time>>

\* One poll of recv.receive() in the consumer's loop: Pending ends the
\* consumer's turn; Ready(v) is compared with i and dropped, and the loop goes
\* on to the next receive() or ends after the last.
JoinConsumerPoll ==
    /\ JoinTask = "consumer" /\ join.consumer # "done"
    /\ LET call == IF fut = None THEN nrecv + 1 ELSE fut
       IN /\ nrecv' = IF fut = None THEN nrecv + 1 ELSE nrecv
          /\ \E r \in Receiver_poll(channel, call) :
               /\ channel' = r.channel
               /\ IF r.poll = "Pending"
                  THEN /\ recv' = "pending"
                       /\ fut' = call
                       /\ join' = [join EXCEPT !.turn = @ + 1]
                       /\ UNCHANGED <<received, drops>>
                  ELSE /\ recv' = "idle"
                       /\ fut' = None
                       /\ drops' = count_drops(drops, <<r.message.id>>)
                       /\ received' = Append(received,
                              [id |-> r.message.id, call |-> call,
                               at |-> constructed,
                               intact |-> r.message.val = last_val,
                               base |-> split_at, first |-> ~polled,
                               parked |-> recv = "pending",
                               notified |-> call \in woken])
                       /\ join' = IF Len(received) + 1 >= join.n
                                  THEN [join EXCEPT !.consumer = "done",
                                                    !.turn = @ + 1]
                                  ELSE join
          /\ woken' = woken \ {call}
    /\ polled' = TRUE
    /\ UNCHANGED <<alive, handles, held, constructed, last_ret, last_val,
                   last_woken, split_at, time>>

\* join does not poll a future that has finished.
JoinSkipDone ==
    /\ JoinTask # "none" /\ join[JoinTask] = "done"
    /\ join' = [join EXCEPT !.turn = @ + 1]
    /\ UNCHANGED <<alive, handles, channel, fut, recv, woken, held, nrecv,
                   constructed, drops, received, last_ret, last_val, last_woken,
                   split_at, polled, time>>

JoinDone == join.producer = "done" /\ join.consumer = "done"

\* join returned Pending: block_on polls it again once the task was woken.
JoinRepoll ==
    /\ JoinTask = "none" /\ ~JoinDone /\ join.woke
    /\ join' = [join EXCEPT !.turn = 1, !.woke = FALSE]
    /\ UNCHANGED <<alive, handles, channel, fut, recv, woken, held, nrecv,
                   constructed, drops, received, last_ret, last_val, last_woken,
                   split_at, polled, time>>

JoinNext == JoinProducerPoll \/ JoinConsumerPoll \/ JoinSkipDone \/ JoinRepoll

\* block_on runs the task whenever it can run.
JoinSpec == JoinInit /\ [][JoinNext]_vars /\ WF_vars(JoinNext)

\* ------------------------------------------------------------ properties
SendStep == constructed' = constructed + 1
Resolved == Len(received') = Len(received) + 1
LastReceived == received[Len(received)]

\* C1: after a split, sends s1..sn (n >= 1) and then the first receive: that
\* receive resolves to sn, and no receive ever returns one of s1..s(n-1).
C1_LastSendWins ==
    \A i \in 1..Len(received) :
        received[i].first =>
            /\ received[i].at > received[i].base
            /\ received[i].id = received[i].at
            /\ received[i].intact
            /\ \A j \in 1..Len(received) :
                 received[j].id \notin (received[i].base + 1)..(received[i].at - 1)

\* Three sends, then a receive that took the third, then a later receive.
C1_Witness ==
    /\ Len(received) >= 2
    /\ received[1].first /\ received[1].base = 0 /\ received[1].at >= 2
    /\ received[1].id = received[1].at

\* C2: every send returns true exactly when is_ready held right before it.
C2_SendReturnsWasReady ==
    [][SendStep => (last_ret' = channel.state.is_ready)]_vars

\* A send has returned false and a later one true.
C2_Witness == constructed >= 2 /\ last_ret = TRUE

\* C3: every resolved receive returns the most recent send before it; that
\* send came after the previous receive resolved; no value is returned twice.
C3_SendOrderAtMostOnce ==
    /\ \A i \in 1..Len(received) :
         /\ received[i].id = received[i].at
         /\ received[i].intact
    /\ \A i \in 2..Len(received) : received[i].id > received[i - 1].at
    /\ \A i, j \in 1..Len(received) : i # j => received[i].id # received[j].id

\* Two receives resolved, with a send between them that neither observed.
C3_Witness ==
    /\ Len(received) >= 2
    /\ received[2].id > received[1].at + 1

\* C4: a poll returns Pending exactly when is_ready is false at that poll, and
\* resolves exactly when it is true.
C4_SuspendsIffEmpty ==
    [][Poll => /\ (recv' = "pending") <=> ~channel.state.is_ready
               /\ Resolved <=> channel.state.is_ready]_vars

\* One receive has resolved and a re-polled one is suspended.
C4_Witness ==
    /\ Len(received) >= 1
    /\ recv = "pending" /\ polled /\ ~channel.state.is_ready
    /\ channel.state.waker = fut

\* C5: a resolving poll leaves the channel empty (not ready, no live value, no
\* waker), and a poll with no send since the last resolution suspends.
C5_EmptyAfterReceive ==
    [][Poll => /\ Resolved => /\ ~channel'.state.is_ready
                              /\ channel'.message.cell # "init"
                              /\ channel'.state.waker = None
               /\ (Len(received) > 0 /\ LastReceived.at = constructed)
                     => recv' = "pending"]_vars

\* A receive resolved, and the next one, with no send in between, is suspended.
C5_Witness ==
    /\ Len(received) >= 1
    /\ LastReceived.at = constructed /\ LastReceived.base = split_at
    /\ recv = "pending" /\ fut # LastReceived.call

\* C6: a send that finds a suspended receive wakes it; the re-poll of a
\* suspended receive that finds a value resolves to the value last sent; and
\* under fair re-polling of woken tasks a suspended receive does not stay
\* parked once a value was sent (it resolves, unless it is abandoned).
C6_SuspendedReceiveResolves ==
    /\ [][(SendStep /\ recv = "pending" /\ channel.state.waker = fut)
            => fut \in woken']_vars
    /\ [][(Poll /\ Resolved /\ recv = "pending")
            => /\ received'[Len(received')].call = fut
               /\ received'[Len(received')].id = constructed
               /\ received'[Len(received')].intact]_vars
    /\ (recv = "pending" /\ channel.state.is_ready) ~> (recv # "pending")

\* The first receive was suspended before any send, woken, and resolved to it.
C6_Witness ==
    \E i \in 1..Len(received) :
        /\ received[i].call = 1 /\ received[i].parked /\ received[i].notified
        /\ received[i].id = received[i].at

\* C7: is_ready and a registered waker never hold together.
C7_ReadyExcludesWaker ==
    ~(channel.state.is_ready /\ channel.state.waker # None)

\* A value was installed while a receive was suspended: its waker is gone.
C7_Witness ==
    /\ channel.state.is_ready /\ recv = "pending" /\ fut \in woken
    /\ channel.state.waker = None

RECURSIVE total_drops(_)
total_drops(n) == IF n = 0 THEN 0 ELSE drops[n] + total_drops(n - 1)

\* C8: once the channel and the consumer's values are destroyed, constructions
\* equal destructions and no value was destroyed twice.
C8_LifecycleBalanced ==
    (~alive /\ held = {}) =>
        /\ total_drops(constructed) = constructed
        /\ \A i \in 1..constructed : drops[i] <= 1

\* C9: split leaves the channel empty whatever came before; then the first
\* poll of a receive suspends and the first send returns false.
C9_SplitYieldsEmpty ==
    [][/\ Split => /\ ~channel'.state.is_ready
                   /\ channel'.state.waker = None
                   /\ channel'.message.cell # "init"
       /\ (Poll /\ handles /\ constructed = split_at) => recv' = "pending"
       /\ (SendStep /\ constructed = split_at) => last_ret' = FALSE]_vars

\* A use left an unread value; after the next split a receive is suspended and
\* the first send has returned false.
C9_Witness ==
    /\ split_at >= 1 /\ split_at \notin held
    /\ \A i \in 1..Len(received) : received[i].id # split_at
    /\ constructed = split_at + 1 /\ last_ret = FALSE
    /\ recv = "pending"

\* C10: split on a channel holding an unread value destroys that value once.
C10_SplitDestroysResidual ==
    [][(Split /\ channel.state.is_ready)
         => drops'[channel.message.id] = 1]_vars

\* C16: is_ready holds exactly when the cell holds a live value; a resolving
\* poll reads a live cell; send destroys the previous value exactly once when
\* it overwrites one, and runs no destructor otherwise (never on an unwritten
\* or moved-out cell).
C16_ReadyIffLive ==
    /\ [](alive => (channel.state.is_ready <=> channel.message.cell = "init"))
    /\ [](drops[Garbage] = 0 /\ \A i \in Ids : drops[i] <= 1)
    /\ [][(Poll /\ Resolved) => channel.message.cell = "init"]_vars
    /\ [][SendStep =>
            IF channel.message.cell = "init"
            THEN drops' = [drops EXCEPT ![channel.message.id] = 1]
            ELSE drops' = drops]_vars

\* A send overwrote an unread value (destroyed once) and a receive then moved
\* the new one out; a further send found the moved-out cell.
C16_Witness ==
    /\ constructed = 3 /\ drops[1] = 1 /\ Len(received) = 1
    /\ received[1].id = 2 /\ channel.message.id = 3 /\ drops[2] = 0
    /\ last_ret = FALSE

\* C17: a send that finds a registered waker removes it and wakes it exactly
\* once; a send that finds none wakes nothing.
C17_WakeExactlyOnce ==
    [][SendStep =>
        /\ channel'.state.waker = None
        /\ last_woken' = IF channel.state.waker # None
                          THEN <<channel.state.waker>> ELSE <<>>]_vars

\* A send found the waker of a suspended receive and woke it once, and a later
\* send found no waker.
C17_Witness ==
    /\ constructed >= 2 /\ last_woken = <<>> /\ last_ret = TRUE
    /\ recv = "pending" /\ fut \in woken

\* C18: abandoning a receive leaves the channel as it is; a poll that suspends
\* registers the polling call's waker in place of any stale one; a send wakes
\* only the waker registered last; a send that finds a stale waker wakes it and
\* leaves the value, and the first poll of the next receive takes that value.
C18_LastRegistrationWins ==
    [][/\ Cancel => channel' = channel
       /\ (Poll /\ ~Resolved) => channel'.state.waker = fut
       /\ SendStep => /\ \A i \in 1..Len(last_woken') :
                           last_woken'[i] = channel.state.waker
                      /\ (channel.state.waker # None /\ channel.state.waker # fut)
                           => /\ last_woken' = <<channel.state.waker>>
                              /\ woken' = {}
                              /\ channel'.state.is_ready
                              /\ channel'.message.id = constructed'
       /\ (Poll /\ recv = "created" /\ channel.state.is_ready)
            => /\ Resolved
               /\ received'[Len(received')].id = channel.message.id]_vars

\* A receive was abandoned while suspended, a send woke its stale waker, and the
\* next receive resolved on its first poll to that value.
C18_Witness ==
    /\ Len(received) >= 1 /\ Len(last_woken) = 1
    /\ LastReceived.call > last_woken[1]
    /\ ~LastReceived.parked /\ LastReceived.at = constructed
    /\ LastReceived.id = constructed

\* C19: whenever the receive in flight is suspended and the slot is ready, its
\* waker was woken since its last poll.
C19_NoLostWakeup ==
    (recv = "pending" /\ channel.state.is_ready) => fut \in woken

\* The second receive re-registered over a stale waker, was suspended, and a
\* send then made the slot ready and woke it.
C19_Witness ==
    /\ recv = "pending" /\ channel.state.is_ready /\ fut \in woken
    /\ fut >= 2 /\ last_woken = <<fut>> /\ Len(received) = 0

\* C12 as stated: for every Instant a and Duration b the expression
\* (a - b) + b has a value and it is a.
C12_SubAddRoundTrip ==
    /\ time.ops = <<"sub_duration">> => time.acc # Panic
    /\ time.ops = <<"sub_duration", "add_duration">>
         => time.acc = Instant_from_us(time.x)

\* C12 as amended: (a - b) + b is a whenever a - b is representable, and also
\* when it is not in a build without overflow checks (it wraps both ways); with
\* overflow checks an unrepresentable a - b panics.
C12_SubAddRoundTripNoPanic ==
    /\ time.ops = <<"sub_duration">>
         => (time.acc = Panic <=> (time.checks /\ ~InRange(time.x - time.y)))
    /\ time.ops = <<"sub_duration", "add_duration">>
         => time.acc = Instant_from_us(time.x)

\* MIN - 1 wrapped to MAX and adding 1 wrapped back to MIN.
C12_Witness ==
    /\ time.ops = <<"sub_duration", "add_duration">>
    /\ time.x = MinI /\ time.y = 1 /\ ~time.checks
    /\ time.acc = Instant_from_us(MinI)

\* C13: Instant - Instant is a Duration holding the difference of the counts.
C13_InstantDifferenceIsDuration ==
    (time.ops = <<"sub_instant">> /\ InRange(time.x - time.y))
        => time.acc = Duration_from_us(time.x - time.y)

C15_MulDivRoundTrip ==
    /\ (time.ops = <<"mul">> /\ time.k # 0) => time.acc # Panic
    /\ (time.ops = <<"mul", "div">> /\ time.k # 0)
         => time.acc = Duration_from_us(time.x)

\* C15 as amended: (d * k) / k is d whenever d * (k as i64) is representable;
\* the product panics exactly when it is not and overflow checks are on.
C15_MulDivRoundTripInRange ==
    /\ (time.ops = <<"mul">> /\ time.k # 0)
         => (time.acc = Panic
               <=> (time.checks /\ ~InRange(time.x * usize_as_i64(time.k))))
    /\ (time.ops = <<"mul", "div">> /\ time.k # 0
           /\ InRange(time.x * usize_as_i64(time.k)))
         => time.acc = Duration_from_us(time.x)

\* (Duration(-50) * 2) / 2 was computed.
C15_Witness ==
    /\ time.ops = <<"mul", "div">> /\ time.x = -50 /\ time.k = 2
    /\ time.acc = Duration_from_us(-50)

\* C11: under join, with the producer yielding after each of its n sends, the
\* i-th receive returns the i-th value sent, no send overwrites an unread
\* value, and both tasks finish.
C11_JoinDeliversInOrder ==
    /\ [](/\ \A i \in 1..Len(received) :
               received[i].id = i /\ received[i].intact
          /\ Len(received) <= join.n
          /\ last_ret = FALSE)
    /\ <>(JoinDone /\ Len(received) = join.n /\ constructed = join.n)

\* The test's ten values were sent and received and both tasks finished.
C11_Witness ==
    /\ JoinDone /\ join.n = JoinN
    /\ Len(received) = JoinN /\ constructed = JoinN
    /\ received[JoinN].id = JoinN /\ received[JoinN].parked

====
